---- MODULE Spec2Model ----
(***************************************************************************)
(* Model of crates/editor/src/blink_manager.rs: the BlinkManager that      *)
(* drives the caret's blinking.  One action per public method, per         *)
(* subscription handler installed by BlinkManager::new and per spawned     *)
(* timer task.  Handlers run to completion on the foreground executor, so  *)
(* each one is a single atomic step; a timer task is a pending record      *)
(* until its Timer::after completes and its callback runs.                 *)
(***************************************************************************)
EXTENDS Integers, Sequences, FiniteSets, TLC

\* Largest value blink_epoch is explored to (the counter is a usize).
MaxEpoch == 4

VARIABLES
    blink_epoch,      \* BlinkManager.blink_epoch
    blinking_paused,  \* BlinkManager.blinking_paused
    visible,          \* BlinkManager.visible
    focused,          \* focus_handle.is_focused(window)
    enabled,          \* (self.is_enabled)(cx)
    alive,            \* the entity still exists (the WeakEntity resolves)
    timers,           \* spawned tasks waiting in Timer::after
    scheduled,        \* history: number of tasks ever spawned
    notified,         \* history: cx.notify() calls made by the last handler
    lastOp,           \* history: the handler that ran last
    pre,              \* history: the fields before the last handler ran
    pauseGuard,       \* history: task of the pause whose interval is running
    blurWindow,       \* history: focus was lost, no focus gain/refresh since
    rapid,            \* history: <<first, second>> tasks of back-to-back pauses
    scen              \* history: live blink firings since the last focus gain

vars == <<blink_epoch, blinking_paused, visible, focused, enabled, alive,
          timers, scheduled, notified, lastOp, pre, pauseGuard, blurWindow,
          rapid, scen>>

\* The manager's fields as one value, with the effects a handler has on the
\* context: the tasks it spawned and the cx.notify() calls it made.
This ==
    [blink_epoch |-> blink_epoch, blinking_paused |-> blinking_paused,
     visible |-> visible, spawned |-> <<>>, notified |-> 0]

\* cx.notify()
notify(this) ==
    [this EXCEPT !.notified = @ + 1]

\* cx.spawn_in(window, async move |this, cx| { Timer::after(interval).await; .. }).detach()
spawn_in(this, kind, epoch) ==
    [this EXCEPT !.spawned = Append(@, [kind |-> kind, epoch |-> epoch])]

\* show_cursor that forgets the assignment.
show_cursor_skip(this) ==
    this

\* show_cursor that stores and notifies without looking at visible.
show_cursor_always(this) ==
    notify([this EXCEPT !.visible = TRUE])

show_cursor(this) ==
    IF ~this.visible
    THEN notify([this EXCEPT !.visible = TRUE])
    ELSE this

\* next_blink_epoch without the increment.
next_blink_epoch_stuck(this) ==
    [this |-> this, ret |-> this.blink_epoch]

\* next_blink_epoch stepping by two.
next_blink_epoch_skip(this) ==
    [this |-> [this EXCEPT !.blink_epoch = @ + 2],
     ret |-> this.blink_epoch + 2]

\* next_blink_epoch handing back the value from before the increment.
next_blink_epoch_before(this) ==
    [this |-> [this EXCEPT !.blink_epoch = @ + 1],
     ret |-> this.blink_epoch]

\* Returns the manager after the increment and the value handed back.
next_blink_epoch(this) ==
    [this |-> [this EXCEPT !.blink_epoch = @ + 1],
     ret |-> this.blink_epoch + 1]

\* pause_blinking that advances the epoch but spawns no resume task.
pause_blinking_nospawn(this) ==
    next_blink_epoch(show_cursor(this)).this

pause_blinking(this) ==
    LET shown == show_cursor(this)
        r == next_blink_epoch(shown)
        epoch == r.ret
    IN  spawn_in(r.this, "resume", epoch)

\* blink_cursors that never consults the setting.
blink_cursors_always(this, epoch, is_enabled, is_focused) ==
    IF epoch = this.blink_epoch /\ is_focused /\ ~this.blinking_paused
    THEN LET toggled == notify([this EXCEPT !.visible = ~@])
             r == next_blink_epoch(toggled)
         IN  spawn_in(r.this, "blink", r.ret)
    ELSE this

\* blink_cursors without the else branch.
blink_cursors_noshow(this, epoch, is_enabled, is_focused) ==
    IF is_enabled /\ epoch = this.blink_epoch /\ is_focused
       /\ ~this.blinking_paused
    THEN LET toggled == notify([this EXCEPT !.visible = ~@])
             r == next_blink_epoch(toggled)
         IN  spawn_in(r.this, "blink", r.ret)
    ELSE this

\* blink_cursors that never asks the focus handle.
blink_cursors_unfocused(this, epoch, is_enabled, is_focused) ==
    IF is_enabled
    THEN IF epoch = this.blink_epoch /\ ~this.blinking_paused
         THEN LET toggled == notify([this EXCEPT !.visible = ~@])
                  r == next_blink_epoch(toggled)
              IN  spawn_in(r.this, "blink", r.ret)
         ELSE this
    ELSE show_cursor(this)

blink_cursors(this, epoch, is_enabled, is_focused) ==
    IF is_enabled
    THEN IF epoch = this.blink_epoch /\ is_focused /\ ~this.blinking_paused
         THEN LET toggled == notify([this EXCEPT !.visible = ~@])
                  r == next_blink_epoch(toggled)
              IN  spawn_in(r.this, "blink", r.ret)
         ELSE this
    ELSE show_cursor(this)

refresh(this, is_enabled, is_focused) ==
    blink_cursors(this, this.blink_epoch, is_enabled, is_focused)

\* resume_cursor_blinking that resumes whatever epoch it was given.
resume_cursor_blinking_unchecked(this, epoch, is_enabled, is_focused) ==
    refresh([this EXCEPT !.blinking_paused = FALSE], is_enabled, is_focused)

\* resume_cursor_blinking that clears the flag and stops there.
resume_cursor_blinking_silent(this, epoch, is_enabled, is_focused) ==
    IF epoch = this.blink_epoch
    THEN [this EXCEPT !.blinking_paused = FALSE]
    ELSE this

resume_cursor_blinking(this, epoch, is_enabled, is_focused) ==
    IF epoch = this.blink_epoch
    THEN blink_cursors([this EXCEPT !.blinking_paused = FALSE], epoch,
                       is_enabled, is_focused)
    ELSE this

\* An on_focus closure that shows the caret before refreshing.
on_focus_shown(this, is_enabled, is_focused) ==
    refresh([this EXCEPT !.visible = TRUE], is_enabled, is_focused)

\* An on_focus closure that forgets to refresh.
on_focus_norefresh(this, is_enabled, is_focused) ==
    [this EXCEPT !.visible = FALSE]

\* The closure given to cx.on_focus.
on_focus(this, is_enabled, is_focused) ==
    refresh([this EXCEPT !.visible = FALSE], is_enabled, is_focused)

\* An on_blur closure that also notifies.
on_blur_notify(this) ==
    notify([this EXCEPT !.visible = FALSE])

\* The closure given to cx.on_blur.
on_blur(this) ==
    [this EXCEPT !.visible = FALSE]

\* The fields as they are now, kept as the next state's `pre`.
Snapshot ==
    [blink_epoch |-> blink_epoch, blinking_paused |-> blinking_paused,
     visible |-> visible, focused |-> focused, enabled |-> enabled,
     timers |-> timers]

\* The pending tasks after a handler: those left, plus the ones it spawned.
Pending(left, this) ==
    left \cup { [kind |-> this.spawned[i].kind, epoch |-> this.spawned[i].epoch,
                 seq |-> scheduled + i] : i \in 1..Len(this.spawned) }

IsFire(op) == op.name \in {"fire_blink", "fire_resume"}

\* A handler `op` ran and left the manager as `this`, the environment as
\* (f, e, a) and `left` as the tasks that were pending before and still are.
Commit(op, this, f, e, a, left) ==
    /\ this.blink_epoch <= MaxEpoch
    /\ blink_epoch' = this.blink_epoch
    /\ blinking_paused' = this.blinking_paused
    /\ visible' = this.visible
    /\ focused' = f
    /\ enabled' = e
    /\ alive' = a
    /\ timers' = Pending(left, this)
    /\ scheduled' = scheduled + Len(this.spawned)
    /\ notified' = this.notified
    /\ lastOp' = op
    /\ pre' = Snapshot
    /\ pauseGuard' =
         IF ~a \/ ~e \/ ~f \/ op.name = "blur" THEN 0
         ELSE IF op.name = "pause_blinking" THEN scheduled + 1
         ELSE IF op.name = "fire_resume" /\ op.seq = pauseGuard THEN 0
         ELSE pauseGuard
    /\ blurWindow' =
         IF op.name = "blur" THEN TRUE
         ELSE IF op.name \in {"focus", "refresh", "settings", "drop"} THEN FALSE
         ELSE blurWindow
    /\ rapid' =
         IF ~a THEN {}
         ELSE IF op.name = "pause_blinking" /\ lastOp.name = "pause_blinking"
         THEN rapid \cup {<<scheduled, scheduled + 1>>}
         ELSE IF IsFire(op) THEN { p \in rapid : p[1] # op.seq }
         ELSE rapid
    /\ scen' =
         IF op.name = "focus" /\ e THEN 0
         ELSE IF op.name = "fire_blink" /\ op.live /\ scen >= 0 THEN scen + 1
         ELSE -1

Op(name) ==
    [name |-> name, seq |-> 0, epoch |-> 0, live |-> FALSE, second |-> 0]

\* BlinkManager::new; the target may or may not hold the focus, the setting
\* may be on or off.
Init ==
    /\ blink_epoch = 0
    /\ blinking_paused = FALSE
    /\ visible = TRUE
    /\ focused \in BOOLEAN
    /\ enabled \in BOOLEAN
    /\ alive = TRUE
    /\ timers = {}
    /\ scheduled = 0
    /\ notified = 0
    /\ lastOp = Op("new")
    /\ pre = [blink_epoch |-> 0, blinking_paused |-> FALSE, visible |-> TRUE,
              focused |-> focused, enabled |-> enabled, timers |-> {}]
    /\ pauseGuard = 0
    /\ blurWindow = FALSE
    /\ rapid = {}
    /\ scen = -1

\* pub fn refresh
Refresh ==
    /\ alive
    /\ Commit(Op("refresh"), refresh(This, enabled, focused),
              focused, enabled, TRUE, timers)

\* The SettingsStore global changed (to any value of the setting, the old one
\* included): the observer registered by observe_global_in runs refresh.
SettingsChanged ==
    /\ alive
    /\ \E e \in BOOLEAN :
         Commit(Op("settings"), refresh(This, e, focused),
                focused, e, TRUE, timers)

\* The focus handle gained the focus: the on_focus closure runs.
FocusGained ==
    /\ alive
    /\ ~focused
    /\ Commit(Op("focus"), on_focus(This, enabled, TRUE),
              TRUE, enabled, TRUE, timers)

\* The focus handle lost the focus: the on_blur closure runs.
FocusLost ==
    /\ alive
    /\ focused
    /\ Commit(Op("blur"), on_blur(This), FALSE, enabled, TRUE, timers)

\* pub fn pause_blinking
PauseBlinking ==
    /\ alive
    /\ Commit(Op("pause_blinking"), pause_blinking(This),
              focused, enabled, TRUE, timers)

\* pub fn show_cursor
ShowCursor ==
    /\ alive
    /\ Commit(Op("show_cursor"), show_cursor(This),
              focused, enabled, TRUE, timers)

FireOp(t) ==
    [name |-> IF t.kind = "blink" THEN "fire_blink" ELSE "fire_resume",
     seq |-> t.seq, epoch |-> t.epoch,
     live |-> alive /\ t.epoch = blink_epoch,
     second |-> IF \E p \in rapid : p[1] = t.seq
                THEN (CHOOSE p \in rapid : p[1] = t.seq)[2]
                ELSE 0]

\* A blink task holding a strong reference: it runs whether or not the
\* entity was released.
FireBlink_strong ==
    \E t \in timers :
      /\ t.kind = "blink"
      /\ Commit(FireOp(t), blink_cursors(This, t.epoch, enabled, focused),
                focused, enabled, alive, timers \ {t})

\* The Timer::after of a task spawned by blink_cursors completed.
FireBlink ==
    \E t \in timers :
      /\ t.kind = "blink"
      /\ Commit(FireOp(t),
                IF alive THEN blink_cursors(This, t.epoch, enabled, focused)
                         ELSE This,
                focused, enabled, alive, timers \ {t})

\* The Timer::after of a task spawned by pause_blinking completed.
FireResume ==
    \E t \in timers :
      /\ t.kind = "resume"
      /\ Commit(FireOp(t),
                IF alive THEN resume_cursor_blinking(This, t.epoch, enabled, focused)
                         ELSE This,
                focused, enabled, alive, timers \ {t})

\* The input surface is torn down and the entity released.
Drop ==
    /\ alive
    /\ Commit(Op("drop"), This, focused, enabled, FALSE, timers)

Next ==
    \/ Refresh
    \/ SettingsChanged
    \/ FocusGained
    \/ FocusLost
    \/ PauseBlinking
    \/ ShowCursor
    \/ FireBlink
    \/ FireResume
    \/ Drop

Spec == Init /\ [][Next]_vars

\* Timer::after completes after blink_interval: a pending task does fire.
FairSpec == Spec /\ WF_vars(FireBlink) /\ WF_vars(FireResume)

\* The manager is built before its target takes the focus.
InitUnfocused == Init /\ ~focused

SpecUnfocused == InitUnfocused /\ [][Next]_vars

TypeOK ==
    /\ blink_epoch \in 0..MaxEpoch
    /\ blinking_paused \in BOOLEAN
    /\ visible \in BOOLEAN
    /\ scheduled \in Nat
    /\ notified \in 0..2

(***************************************************************************)
(* Properties                                                              *)
(***************************************************************************)

\* Tasks spawned by the last handler.
Spawned == timers \ pre.timers

\* The last handler left the manager's fields alone, spawned nothing and
\* notified nobody.
NoEffect ==
    /\ visible = pre.visible
    /\ blinking_paused = pre.blinking_paused
    /\ blink_epoch = pre.blink_epoch
    /\ Spawned = {}
    /\ notified = 0

\* C1: a timer callback whose captured epoch differs from blink_epoch when it
\* fires changes no field, spawns no task and notifies nobody.
C1_StaleCallbackImmunity ==
    (IsFire(lastOp) /\ lastOp.epoch # pre.blink_epoch) => NoEffect

\* C2: no pending callback holds an epoch above blink_epoch, at most one
\* holds blink_epoch itself, and that one is the task spawned last.
C2_OneLiveTimer ==
    /\ \A t \in timers : t.epoch <= blink_epoch
    /\ \A t \in timers : t.epoch = blink_epoch => t.seq = scheduled
    /\ Cardinality({ t \in timers : t.epoch = blink_epoch }) <= 1

C2_Witness ==
    \E t, u \in timers :
        /\ t.epoch = blink_epoch
        /\ u.epoch < blink_epoch
        /\ Cardinality(timers) >= 3

\* C3: blink_epoch starts at 0, a handler leaves it alone or adds exactly 1,
\* it adds 1 exactly when it spawns one task, and blink_epoch always equals
\* the number of tasks ever spawned.
C3_EpochMonotonic ==
    /\ lastOp.name = "new" => blink_epoch = 0
    /\ blink_epoch \in {pre.blink_epoch, pre.blink_epoch + 1}
    /\ Cardinality(Spawned) <= 1
    /\ (blink_epoch = pre.blink_epoch + 1) <=> (Cardinality(Spawned) = 1)
    /\ blink_epoch = scheduled

C3_Witness ==
    /\ blink_epoch = pre.blink_epoch + 1
    /\ blink_epoch >= 3
    /\ lastOp.name = "fire_resume"

\* C4: from a pause_blinking call until the resume task of that pause fires,
\* with the setting on and the target focused throughout, visible is true.
C4_PauseHoldsVisible ==
    pauseGuard # 0 => visible

\* C5: the state right after pause_blinking has visible = TRUE.
C5_PauseForcesVisible ==
    lastOp.name = "pause_blinking" => visible

C5_Witness ==
    /\ lastOp.name = "pause_blinking"
    /\ ~pre.visible
    /\ visible

\* C6: between a focus loss and the next focus gain or refresh, no timer
\* firing changes visible, increments blink_epoch or spawns a task.
C6_FocusLossStopsBlinking ==
    (blurWindow /\ IsFire(lastOp)) =>
        /\ visible = pre.visible
        /\ blink_epoch = pre.blink_epoch
        /\ Spawned = {}

\* C7: while the setting is off, no timer firing takes visible from true to
\* false and none spawns a task.
C7_DisabledHaltsToggling ==
    (IsFire(lastOp) /\ ~pre.enabled) =>
        /\ ~(pre.visible /\ ~visible)
        /\ Spawned = {}

C7_Witness ==
    /\ lastOp.name = "fire_blink"
    /\ lastOp.live
    /\ ~pre.enabled
    /\ pre.focused
    /\ pre.visible

\* C8: of two pause_blinking calls in a row, the first one's resume callback
\* is stale when it fires and changes nothing, before or after the second's.
C8_FirstPauseResumeIsNoOp ==
    (lastOp.name = "fire_resume" /\ lastOp.second # 0) =>
        /\ ~lastOp.live
        /\ NoEffect

C8_Witness ==
    /\ lastOp.name = "fire_resume"
    /\ lastOp.second # 0
    /\ alive /\ enabled /\ focused
    /\ \E t \in timers : t.seq = lastOp.second /\ t.kind = "resume"

\* C9: visible goes from true to false only where the decision procedure
\* toggles: the setting on, the target focused, blinking not paused.
C9_HiddenOnlyByToggle ==
    (pre.visible /\ ~visible) =>
        /\ lastOp.name \in {"refresh", "settings", "focus",
                            "fire_blink", "fire_resume"}
        /\ enabled /\ focused /\ ~blinking_paused

\* C10: a manager built unfocused is visible; after a focus gain with the
\* setting on, the k-th live blink firing in a row leaves visible false for
\* odd k and true for even k, and each spawns exactly one task, the live one.
C10_BlinkScenario ==
    /\ (lastOp.name = "new" /\ ~focused) => visible
    /\ scen = 0 => visible
    /\ scen >= 1 =>
          /\ visible = (scen % 2 = 0)
          /\ Cardinality(Spawned) = 1
          /\ \A t \in Spawned : t.epoch = blink_epoch /\ t.kind = "blink"

C10_Witness ==
    /\ scen = 3
    /\ ~visible
    /\ scheduled = 4

\* C11: show_cursor called with visible true changes nothing and notifies
\* nobody; called with visible false it stores true and notifies once; it
\* never touches blink_epoch, blinking_paused or the pending tasks, and a
\* second call right after the first changes nothing more.
C11_IdempotentShow ==
    /\ lastOp.name = "show_cursor" =>
          /\ pre.visible => NoEffect
          /\ ~pre.visible => (visible /\ notified = 1)
          /\ blink_epoch = pre.blink_epoch
          /\ blinking_paused = pre.blinking_paused
          /\ timers = pre.timers
    /\ LET once == show_cursor(This)
           twice == show_cursor(once)
       IN  /\ twice.visible = once.visible
           /\ twice.notified = once.notified
           /\ twice.spawned = once.spawned
           /\ twice.blink_epoch = once.blink_epoch

C11_Witness ==
    /\ lastOp.name = "show_cursor"
    /\ ~pre.visible
    /\ visible
    /\ timers # {}

\* C12: the state right after pause_blinking has blinking_paused = TRUE.
C12_PauseSetsPaused ==
    lastOp.name = "pause_blinking" => blinking_paused

\* C13: after the focus-gained handler visible is true; with the setting on
\* and blinking not paused blink_epoch went up by 1 and exactly one pending
\* task holds it; with the setting off nothing was spawned and blink_epoch
\* is as before.
C13_FocusGainedShowsAndStarts ==
    lastOp.name = "focus" =>
        /\ visible
        /\ (enabled /\ ~pre.blinking_paused) =>
              /\ blink_epoch = pre.blink_epoch + 1
              /\ Cardinality({ t \in timers : t.epoch = blink_epoch }) = 1
              /\ Cardinality(Spawned) = 1
        /\ ~enabled =>
              /\ blink_epoch = pre.blink_epoch
              /\ Spawned = {}

C13_Witness ==
    /\ lastOp.name = "focus"
    /\ enabled
    /\ Cardinality(timers) >= 2
    /\ pre.blink_epoch >= 2

\* The last handler ran blink_cursors: refresh, the settings observer, the
\* focus handler, a blink task whose entity resolved, or a resume task that
\* passed its epoch test.
RanDecision ==
    \/ lastOp.name \in {"refresh", "settings", "focus"}
    \/ lastOp.name = "fire_blink" /\ alive
    \/ lastOp.name = "fire_resume" /\ lastOp.live

\* visible as blink_cursors found it (the focus handler stores false first).
VisibleBefore ==
    IF lastOp.name = "focus" THEN FALSE ELSE pre.visible

\* C14: when blink_cursors runs with the setting off, visible ends true,
\* blink_epoch is unchanged, nothing is spawned, and observers are notified
\* (once) only if visible was false.
C14_DisabledForcesVisible ==
    (RanDecision /\ ~enabled) =>
        /\ visible
        /\ blink_epoch = pre.blink_epoch
        /\ Spawned = {}
        /\ notified = (IF VisibleBefore THEN 0 ELSE 1)

C14_Witness ==
    /\ lastOp.name = "fire_blink"
    /\ alive
    /\ ~enabled
    /\ ~pre.visible
    /\ notified = 1

\* C15: with the setting on, refresh or a live timer firing while the target
\* is unfocused or blinking is paused changes no field, spawns nothing and
\* notifies nobody.
C15_DormantIsNoOp ==
    ( /\ lastOp.name \in {"refresh", "settings"} \/ (IsFire(lastOp) /\ lastOp.live)
      /\ enabled
      /\ ~focused \/ pre.blinking_paused ) =>
        /\ NoEffect
        /\ timers \subseteq pre.timers

C15_Witness ==
    /\ lastOp.name = "fire_blink"
    /\ lastOp.live
    /\ enabled
    /\ ~focused
    /\ ~visible

\* C16: the focus-lost handler leaves blink_epoch, blinking_paused and the
\* pending tasks alone, notifies nobody and does not run blink_cursors (with
\* the setting off that would show the caret).
C16_BlurTouchesOnlyVisible ==
    lastOp.name = "blur" =>
        /\ blink_epoch = pre.blink_epoch
        /\ blinking_paused = pre.blinking_paused
        /\ timers = pre.timers
        /\ notified = 0
        /\ ~visible

C16_Witness ==
    /\ lastOp.name = "blur"
    /\ ~enabled
    /\ pre.visible
    /\ timers # {}

\* The setting is on, the target focused and the manager alive, with room
\* left below the explored epoch bound.
Blinking == alive /\ enabled /\ focused /\ blink_epoch < MaxEpoch

\* Blinking has stopped being required, or the epoch bound is reached.
Released == ~alive \/ ~enabled \/ ~focused \/ blink_epoch = MaxEpoch

\* C17 as stated: from every state with the setting on, the target focused
\* and the manager alive, fair timer firing flips visible again.
C17_AlwaysResumes ==
    /\ (Blinking /\ visible) ~> (~visible \/ Released)
    /\ (Blinking /\ ~visible) ~> (visible \/ Released)

\* C17 as amended: the same once a task has ever been spawned.
C17_ResumesOnceStarted ==
    /\ (Blinking /\ blink_epoch > 0 /\ visible) ~> (~visible \/ Released)
    /\ (Blinking /\ blink_epoch > 0 /\ ~visible) ~> (visible \/ Released)

C17_Witness ==
    /\ lastOp.name = "fire_resume"
    /\ lastOp.live
    /\ alive /\ enabled /\ focused
    /\ pre.visible
    /\ ~visible
    /\ \E t \in Spawned : t.epoch = blink_epoch

\* C18: for a manager built unfocused, whenever the setting is on and the
\* target focused exactly one pending task holds blink_epoch.
C18_FocusedEnabledHasLiveTimer ==
    (alive /\ enabled /\ focused) =>
        Cardinality({ t \in timers : t.epoch = blink_epoch }) = 1

C18_Witness ==
    /\ alive /\ enabled /\ focused
    /\ lastOp.name = "settings"
    /\ ~pre.enabled
    /\ Cardinality(timers) >= 2

\* C19: once the entity is released, a firing task changes no field, spawns
\* nothing and notifies nobody; it only leaves the pending set.
C19_OrphanedTimersAreInert ==
    (IsFire(lastOp) /\ ~alive) =>
        /\ NoEffect
        /\ focused = pre.focused
        /\ enabled = pre.enabled
        /\ Cardinality(timers) = Cardinality(pre.timers) - 1

C19_Witness ==
    /\ ~alive
    /\ lastOp.name = "fire_blink"
    /\ lastOp.epoch = blink_epoch
    /\ pre.enabled /\ pre.focused
    /\ \E t \in timers : t.kind = "resume"

\* A firing in a state where blink_cursors would toggle if it honored the
\* callback: entity alive, setting on, target focused, not paused.
FiredWhereHonoringShows ==
    /\ IsFire(lastOp)
    /\ alive
    /\ pre.enabled
    /\ pre.focused
    /\ ~pre.blinking_paused

====
